---------------------------- MODULE Spec2Model ----------------------------
(***************************************************************************)
(* A model of src/app.py of the water-quality application: one run of      *)
(* main(), the recommendation synthesizer render_recommendations and the   *)
(* result packager export_results.                                        *)
(*                                                                         *)
(* Numbers.  The measurements are Python floats.  The model keeps ph,      *)
(* Chloramines and Turbidity in tenths (6.5 is 65, 2.0 is 20) and every    *)
(* other parameter in whole units, so that the comparisons of the code     *)
(* are integer comparisons.  A probability is kept in ten-thousandths      *)
(* (0.8766 is 8766).                                                       *)
(*                                                                         *)
(* Text.  Risk factors, recommendations and the formatted export fields    *)
(* are strings; the substring test `"pH" in risk` of the code is the       *)
(* operator Contains, the join of the export is the operator Join.         *)
(* Emoji and markdown emphasis of the displayed texts are left out.        *)
(*                                                                         *)
(* Python values that may be None are tagged records, so that `== 0`,      *)
(* `== 1` and `is None` stay three different tests.                        *)
(***************************************************************************)
EXTENDS Integers, Sequences, FiniteSets, TLC

VARIABLES
    pc,               \* the position of the run, or of the call
    model,            \* main: the classifier returned by load_models
    input_values,     \* the caller's dict of the 9 parameters (the object itself)
    input_array,      \* main: the array handed to predict_water_quality
    prediction,       \* the label: 0, 1 or None
    probability,      \* the probability pair, or None
    risk_factors,     \* the list of risk-factor texts
    banner,           \* what render_recommendations announced (st.error / st.success)
    recommendations,  \* the entries render_recommendations wrote, in order
    log,              \* main: the steps executed so far, in order
    raw_input,        \* main: the parameter set as render_sidebar_inputs returned it
    risk_arg,         \* main: the argument assess_risk_factors was called with
    results_dict,     \* export_results: the object its local results_dict refers to
    fresh,            \* export_results: the dict object allocated by copy()
    row               \* export_results: the row of the returned DataFrame

vars == <<pc, model, input_values, input_array, prediction, probability,
          risk_factors, banner, recommendations, log, raw_input, risk_arg,
          results_dict, fresh, row>>

(***************************************************************************)
(* Bounds of the model.                                                    *)
(***************************************************************************)
\* The longest list of risk factors a call is given.
MaxRisks == 2

(***************************************************************************)
(* Python values.                                                          *)
(***************************************************************************)
None == [type |-> "NoneType"]

PyInt(n) == [type |-> "int", value |-> n]

Pair(unsafe, safe) == [type |-> "ndarray", value |-> <<unsafe, safe>>]

\* A name no statement of the run has assigned yet.
Unbound == [type |-> "unbound"]

\* The empty dict object.
EmptyDict == [k \in {} |-> 0]

\* `sub in s` for two strings.
Contains(s, sub) ==
    \E i \in 1..(Len(s) - Len(sub) + 1) : SubSeq(s, i, i + Len(sub) - 1) = sub

\* any(name in risk for risk in risks)
AnyNames(risks, name) ==
    \E i \in 1..Len(risks) : Contains(risks[i], name)

(***************************************************************************)
(* render_recommendations (src/app.py 109-163): the banner and the list    *)
(* of entries written.  The treatment-technology table that follows        *)
(* (165-187) is a fixed display and takes no part in the branching.        *)
(***************************************************************************)
UrgentActions ==
    << "Do not consume this water until proper treatment",
       "Get professional water testing from a certified laboratory",
       "Use bottled water or properly treated water for drinking and cooking",
       "Consider installing appropriate water treatment systems" >>

PhLowEntry == "pH too low: Consider lime treatment or pH adjustment systems"

PhHighEntry == "pH too high: Consider acid neutralization systems"

ChloraminesEntry == "High chloramines: Install activated carbon filtration"

TrihalomethanesEntry ==
    "High trihalomethanes: Use granular activated carbon or reverse osmosis"

TurbidityEntry == "High turbidity: Install sediment filtration and UV disinfection"

SolidsEntry == "High TDS: Consider reverse osmosis or distillation systems"

MaintenanceTips ==
    << "Regular monitoring: Test water quality periodically",
       "System maintenance: Clean and maintain any existing filtration systems",
       "Plumbing check: Ensure pipes and storage tanks are clean",
       "Keep records: Document water quality test results over time" >>

HardnessTip == "Water hardness: Consider water softening for appliance longevity"

ChloramineTip ==
    "Chloramine levels: Let water sit or use carbon filtration to reduce taste/odor"

ErrorBanner == "error: Immediate Actions Required"

SuccessBanner == "success: Water appears safe for consumption"

\* AppendPh with the two comparisons exchanged.
AppendPh_swapped(recs, risks, values) ==
    IF AnyNames(risks, "pH")
    THEN IF values.ph > 85 THEN Append(recs, PhLowEntry)
         ELSE IF values.ph < 65 THEN Append(recs, PhHighEntry)
         ELSE recs
    ELSE recs

\* Lines 123-127: the pH entry, by the value of ph.
AppendPh(recs, risks, values) ==
    IF AnyNames(risks, "pH")
    THEN IF values.ph < 65 THEN Append(recs, PhLowEntry)
         ELSE IF values.ph > 85 THEN Append(recs, PhHighEntry)
         ELSE recs
    ELSE recs

\* Lines 129-139: one fixed entry per named parameter.
AppendNamed(recs, risks, name, entry) ==
    IF AnyNames(risks, name) THEN Append(recs, entry) ELSE recs

\* UnsafeBranch with the Turbidity test ahead of the Trihalomethanes test.
UnsafeBranch_reordered(risks, values) ==
    LET r1 == AppendPh(UrgentActions, risks, values)
        r2 == AppendNamed(r1, risks, "Chloramines", ChloraminesEntry)
        r3 == AppendNamed(r2, risks, "Turbidity", TurbidityEntry)
        r4 == AppendNamed(r3, risks, "Trihalomethanes", TrihalomethanesEntry)
        r5 == AppendNamed(r4, risks, "Solids", SolidsEntry)
    IN  [banner |-> ErrorBanner, written |-> r5]

\* Lines 112-142.
UnsafeBranch(risks, values) ==
    LET r1 == AppendPh(UrgentActions, risks, values)
        r2 == AppendNamed(r1, risks, "Chloramines", ChloraminesEntry)
        r3 == AppendNamed(r2, risks, "Trihalomethanes", TrihalomethanesEntry)
        r4 == AppendNamed(r3, risks, "Turbidity", TurbidityEntry)
        r5 == AppendNamed(r4, risks, "Solids", SolidsEntry)
    IN  [banner |-> ErrorBanner, written |-> r5]

\* SafeBranch with the 4.0 safety threshold in place of the 2.0 advisory one.
SafeBranch_safetyThreshold(values) ==
    LET t1 == IF values.Hardness > 300
              THEN Append(MaintenanceTips, HardnessTip) ELSE MaintenanceTips
        t2 == IF values.Chloramines > 40
              THEN Append(t1, ChloramineTip) ELSE t1
    IN  [banner |-> SuccessBanner, written |-> t2]

\* Lines 144-163.
SafeBranch(values) ==
    LET t1 == IF values.Hardness > 300
              THEN Append(MaintenanceTips, HardnessTip) ELSE MaintenanceTips
        t2 == IF values.Chloramines > 20
              THEN Append(t1, ChloramineTip) ELSE t1
    IN  [banner |-> SuccessBanner, written |-> t2]

\* Line 112: `prediction == 0`.
IsUnsafeLabel(pred) == pred = PyInt(0)

render_recommendations(pred, risks, values) ==
    IF IsUnsafeLabel(pred) THEN UnsafeBranch(risks, values) ELSE SafeBranch(values)

(***************************************************************************)
(* The inputs the calls are given.                                         *)
(***************************************************************************)
\* Risk-factor texts: one per rule of the rule engine, a text naming two
\* parameters, and a text whose lower-case spelling the code does not match.
RiskMessages ==
    { "pH outside 6.5-8.5", "Hardness above 300", "Solids above 500",
      "Chloramines above 4", "Sulfate above 250", "Trihalomethanes above 80",
      "Turbidity above 5", "low pH, high Turbidity", "chloramines high" }

RECURSIVE SeqsUpTo(_, _)
SeqsUpTo(S, n) ==
    IF n = 0 THEN { <<>> }
    ELSE LET shorter == SeqsUpTo(S, n - 1)
         IN  shorter \cup { Append(s, x) : s \in shorter, x \in S }

RiskLists == SeqsUpTo(RiskMessages, MaxRisks)

Labels == { PyInt(0), PyInt(1), None }

\* Parameter sets on both sides of every threshold render_recommendations reads.
RecInputs ==
    [ ph : {64, 65, 70, 85, 86}, Hardness : {300, 301}, Solids : {400},
      Chloramines : {20, 21, 41}, Sulfate : {200}, Conductivity : {400},
      Organic_carbon : {10}, Trihalomethanes : {50}, Turbidity : {30} ]

(***************************************************************************)
(* RecSpec: render_recommendations applied to every input.                 *)
(***************************************************************************)
IdleRun ==
    /\ model = Unbound
    /\ input_array = Unbound
    /\ log = <<>>
    /\ raw_input = Unbound
    /\ risk_arg = Unbound

IdleExport ==
    /\ results_dict = "null"
    /\ fresh = EmptyDict
    /\ row = EmptyDict

RecInit ==
    /\ pc = "call"
    /\ input_values \in RecInputs
    /\ prediction \in Labels
    /\ probability = None
    /\ risk_factors \in RiskLists
    /\ banner = "none"
    /\ recommendations = <<>>
    /\ IdleRun
    /\ IdleExport

RenderCall ==
    /\ banner = "none"
    /\ LET out == render_recommendations(prediction, risk_factors, input_values)
       IN  /\ banner' = out.banner
           /\ recommendations' = out.written
    /\ UNCHANGED <<pc, model, input_values, input_array, prediction, probability,
                   risk_factors, log, raw_input, risk_arg, results_dict, fresh, row>>

RecNext == RenderCall

RecSpec == RecInit /\ [][RecNext]_vars

(***************************************************************************)
(* Vocabulary of the claims about render_recommendations.                  *)
(***************************************************************************)
Rendered == banner # "none"

Count(seq, e) == Cardinality({ i \in DOMAIN seq : seq[i] = e })

Occurs(seq, e) == \E i \in DOMAIN seq : seq[i] = e

Tail4(seq) == SubSeq(seq, 5, Len(seq))

UrgentTrack ==
    { UrgentActions[i] : i \in 1..4 }
        \cup { PhLowEntry, PhHighEntry, ChloraminesEntry, TrihalomethanesEntry,
               TurbidityEntry, SolidsEntry }

MaintenanceTrack ==
    { MaintenanceTips[i] : i \in 1..4 } \cup { HardnessTip, ChloramineTip }

\* The place of a targeted entry in the fixed order pH, Chloramines,
\* Trihalomethanes, Turbidity, Solids (0: not a targeted entry).
TargetRank(e) ==
    CASE e \in { PhLowEntry, PhHighEntry } -> 1
      [] e = ChloraminesEntry -> 2
      [] e = TrihalomethanesEntry -> 3
      [] e = TurbidityEntry -> 4
      [] e = SolidsEntry -> 5
      [] OTHER -> 0

\* seq holds targeted entries only, in strictly increasing rank.
InTargetOrder(seq) ==
    /\ \A i \in DOMAIN seq : TargetRank(seq[i]) > 0
    /\ \A i, j \in DOMAIN seq : i < j => TargetRank(seq[i]) < TargetRank(seq[j])

\* C1: with prediction == 0 the list is the four urgent actions in order,
\* then targeted entries in the order pH, Chloramines, Trihalomethanes,
\* Turbidity, Solids; each of the last four is present exactly when some
\* risk factor names its parameter; no maintenance entry appears.
C1_UnsafeTrackList ==
    (Rendered /\ prediction = PyInt(0)) =>
        /\ banner = ErrorBanner
        /\ Len(recommendations) >= 4
        /\ SubSeq(recommendations, 1, 4) = UrgentActions
        /\ InTargetOrder(Tail4(recommendations))
        /\ Occurs(recommendations, ChloraminesEntry)
               <=> AnyNames(risk_factors, "Chloramines")
        /\ Occurs(recommendations, TrihalomethanesEntry)
               <=> AnyNames(risk_factors, "Trihalomethanes")
        /\ Occurs(recommendations, TurbidityEntry)
               <=> AnyNames(risk_factors, "Turbidity")
        /\ Occurs(recommendations, SolidsEntry)
               <=> AnyNames(risk_factors, "Solids")
        /\ \A i \in DOMAIN recommendations :
               recommendations[i] \notin MaintenanceTrack

\* An unsafe label, a low ph named as a risk and Turbidity named as a risk:
\* four actions, the pH entry, the turbidity entry.
C1_Witness ==
    /\ Rendered
    /\ prediction = PyInt(0)
    /\ input_values.ph = 64
    /\ risk_factors = << "low pH, high Turbidity", "Solids above 500" >>
    /\ recommendations =
           UrgentActions \o << PhLowEntry, TurbidityEntry, SolidsEntry >>

\* C2: on the safe branch the list is the four maintenance tips, then the
\* Hardness tip iff Hardness > 300, then the Chloramines tip iff
\* Chloramines > 2.0, whatever the risk factors are; no urgent entry.
C2_SafeTrackList ==
    (Rendered /\ prediction # PyInt(0)) =>
        /\ banner = SuccessBanner
        /\ recommendations =
               MaintenanceTips
                   \o (IF input_values.Hardness > 300
                       THEN << HardnessTip >> ELSE << >>)
                   \o (IF input_values.Chloramines > 20
                       THEN << ChloramineTip >> ELSE << >>)
        /\ \A i \in DOMAIN recommendations :
               recommendations[i] \notin UrgentTrack

\* A safe label with Chloramines at 2.1, between the advisory and the safety
\* threshold, and a Chloramines risk factor in the list: the tip is there.
C2_Witness ==
    /\ Rendered
    /\ prediction = PyInt(1)
    /\ input_values.Hardness = 301
    /\ input_values.Chloramines = 21
    /\ AnyNames(risk_factors, "Turbidity")
    /\ recommendations = MaintenanceTips \o << HardnessTip, ChloramineTip >>

PhEntries(seq) == Count(seq, PhLowEntry) + Count(seq, PhHighEntry)

FeatureNames ==
    << "ph", "Hardness", "Solids", "Chloramines", "Sulfate", "Conductivity",
       "Organic_carbon", "Trihalomethanes", "Turbidity" >>

\* The rule engine: one text per violated threshold, in evaluation order.
assess_risk_factors(values) ==
    (IF values.ph < 65 \/ values.ph > 85 THEN << "pH outside 6.5-8.5" >> ELSE << >>)
        \o (IF values.Hardness > 300 THEN << "Hardness above 300" >> ELSE << >>)
        \o (IF values.Solids > 500 THEN << "Solids above 500" >> ELSE << >>)
        \o (IF values.Chloramines > 40 THEN << "Chloramines above 4" >> ELSE << >>)
        \o (IF values.Sulfate > 250 THEN << "Sulfate above 250" >> ELSE << >>)
        \o (IF values.Trihalomethanes > 80
            THEN << "Trihalomethanes above 80" >> ELSE << >>)
        \o (IF values.Turbidity > 50 THEN << "Turbidity above 5" >> ELSE << >>)

\* What load_models returns as its first component: a classifier, or None.
Classifier == [type |-> "classifier"]

LoadOutcomes == { Classifier, None }

\* What predict_water_quality returns: a label with its probability pair, or
\* (None, None), the outcome line 61 of main tests for.
PredictOutcomes ==
    { << PyInt(0), Pair(8766, 1234) >>, << PyInt(1), Pair(1234, 8766) >>,
      << PyInt(1), Pair(5000, 5000) >>, << None, None >> }

\* The parameter sets the sidebar can return: both sides of every threshold.
MainInputs ==
    [ ph : {64, 70, 86}, Hardness : {300, 301}, Solids : {500, 501},
      Chloramines : {20, 41}, Sulfate : {250, 251}, Conductivity : {400},
      Organic_carbon : {10}, Trihalomethanes : {80, 81}, Turbidity : {50, 51} ]

(***************************************************************************)
(* Spec: one run of main (src/app.py 22-106).                              *)
(***************************************************************************)
Init ==
    /\ pc = "load"
    /\ model = Unbound
    /\ input_values = Unbound
    /\ input_array = Unbound
    /\ prediction = Unbound
    /\ probability = Unbound
    /\ risk_factors = Unbound
    /\ banner = "none"
    /\ recommendations = <<>>
    /\ log = <<>>
    /\ raw_input = Unbound
    /\ risk_arg = Unbound
    /\ IdleExport

\* Line 35.
LoadModels ==
    /\ pc = "load"
    /\ \E m \in LoadOutcomes : model' = m
    /\ log' = Append(log, "load_models")
    /\ pc' = "check_model"
    /\ UNCHANGED <<input_values, input_array, prediction, probability,
                   risk_factors, banner, recommendations, raw_input, risk_arg,
                   results_dict, fresh, row>>

\* CheckModel without the st.stop(): the run goes on without a model.
CheckModel_noStop ==
    /\ pc = "check_model"
    /\ pc' = "inputs"
    /\ UNCHANGED log
    /\ UNCHANGED <<model, input_values, input_array, prediction, probability,
                   risk_factors, banner, recommendations, raw_input, risk_arg,
                   results_dict, fresh, row>>

\* Lines 37-38: st.stop() ends the run.
CheckModel ==
    /\ pc = "check_model"
    /\ IF model = None
       THEN /\ pc' = "stopped"
            /\ log' = Append(log, "st.stop")
       ELSE /\ pc' = "inputs"
            /\ UNCHANGED log
    /\ UNCHANGED <<model, input_values, input_array, prediction, probability,
                   risk_factors, banner, recommendations, raw_input, risk_arg,
                   results_dict, fresh, row>>

\* Lines 41-49.
ReadInputs ==
    /\ pc = "inputs"
    /\ \E v \in MainInputs :
           /\ input_values' = v
           /\ raw_input' = v
    /\ log' = Append(log, "render_sidebar_inputs")
    /\ pc' = "predict"
    /\ UNCHANGED <<model, input_array, prediction, probability, risk_factors,
                   banner, recommendations, risk_arg, results_dict, fresh, row>>

\* Line 55: np.array([input_values[param] for param in feature_names]).
ArrayOf(values) == [ i \in 1..Len(FeatureNames) |-> values[FeatureNames[i]] ]

\* MakePrediction preprocessing in place: the imputer's ph statistic is
\* written back into the caller's dict.
MakePrediction_inPlace ==
    /\ pc = "predict"
    /\ input_array' = ArrayOf(input_values)
    /\ input_values' = [input_values EXCEPT !.ph = 70]
    /\ \E out \in PredictOutcomes :
           /\ prediction' = out[1]
           /\ probability' = out[2]
    /\ log' = Append(log, "predict_water_quality")
    /\ pc' = "visualize"
    /\ UNCHANGED <<model, risk_factors, banner, recommendations,
                   raw_input, risk_arg, results_dict, fresh, row>>

\* Lines 55-58.
MakePrediction ==
    /\ pc = "predict"
    /\ input_array' = ArrayOf(input_values)
    /\ \E out \in PredictOutcomes :
           /\ prediction' = out[1]
           /\ probability' = out[2]
    /\ log' = Append(log, "predict_water_quality")
    /\ pc' = "visualize"
    /\ UNCHANGED <<model, input_values, risk_factors, banner, recommendations,
                   raw_input, risk_arg, results_dict, fresh, row>>

\* Lines 61-78: the charts are drawn only for a prediction that is not None.
Visualize ==
    /\ pc = "visualize"
    /\ log' = IF prediction # None THEN Append(log, "visualizations") ELSE log
    /\ pc' = "risk"
    /\ UNCHANGED <<model, input_values, input_array, prediction, probability,
                   risk_factors, banner, recommendations, raw_input, risk_arg,
                   results_dict, fresh, row>>

\* AssessRisk going back to the prediction step once the risks are known.
AssessRisk_again ==
    /\ pc = "risk"
    /\ risk_arg' = input_values
    /\ risk_factors' = assess_risk_factors(input_values)
    /\ log' = Append(log, "assess_risk_factors")
    /\ pc' = IF Len(log) < 6 THEN "predict" ELSE "recommend"
    /\ UNCHANGED <<model, input_values, input_array, prediction, probability,
                   banner, recommendations, raw_input, results_dict, fresh, row>>

\* Lines 81-89.
AssessRisk ==
    /\ pc = "risk"
    /\ risk_arg' = input_values
    /\ risk_factors' = assess_risk_factors(input_values)
    /\ log' = Append(log, "assess_risk_factors")
    /\ pc' = "recommend"
    /\ UNCHANGED <<model, input_values, input_array, prediction, probability,
                   banner, recommendations, raw_input, results_dict, fresh, row>>

\* Lines 92-93.
Recommend ==
    /\ pc = "recommend"
    /\ LET out == render_recommendations(prediction, risk_factors, input_values)
       IN  /\ banner' = out.banner
           /\ recommendations' = out.written
    /\ log' = Append(log, "render_recommendations")
    /\ pc' = "footer"
    /\ UNCHANGED <<model, input_values, input_array, prediction, probability,
                   risk_factors, raw_input, risk_arg, results_dict, fresh, row>>

\* Lines 96-106.
Finish ==
    /\ pc = "footer"
    /\ log' = Append(log, "footer")
    /\ pc' = "done"
    /\ UNCHANGED <<model, input_values, input_array, prediction, probability,
                   risk_factors, banner, recommendations, raw_input, risk_arg,
                   results_dict, fresh, row>>

Next ==
    \/ LoadModels
    \/ CheckModel
    \/ ReadInputs
    \/ MakePrediction
    \/ Visualize
    \/ AssessRisk
    \/ Recommend
    \/ Finish

Spec == Init /\ [][Next]_vars

(***************************************************************************)
(* Claims about a run of main.                                             *)
(***************************************************************************)
Times(step) == Count(log, step)

\* The position of the first occurrence of a step in the log (0: none).
FirstAt(step) ==
    IF Occurs(log, step)
    THEN CHOOSE i \in DOMAIN log :
             log[i] = step /\ \A j \in 1..(i - 1) : log[j] # step
    ELSE 0

\* C3 as stated: a run whose prediction is None emits neither
\* recommendation track, and never the maintenance track.
C3_AsStated ==
    prediction = None => (banner = "none" /\ recommendations = <<>>)

\* C4: when load_models returns no model the run reads no input and never
\* executes the prediction, risk-assessment or recommendation step.
C4_NoModelNoAssessment ==
    model = None =>
        /\ pc \in { "check_model", "stopped" }
        /\ raw_input = Unbound
        /\ input_values = Unbound
        /\ prediction = Unbound
        /\ risk_factors = Unbound
        /\ banner = "none"
        /\ recommendations = <<>>
        /\ \A i \in DOMAIN log : log[i] \in { "load_models", "st.stop" }

\* The run stopped by st.stop() after a failed load.
C4_Witness ==
    /\ model = None
    /\ pc = "stopped"
    /\ log = << "load_models", "st.stop" >>

\* C5: no step of a run is executed twice; a run that reaches recommendation
\* synthesis has executed the prediction step and the risk step exactly once
\* each, both before it and both on the same parameter set.
C5_LinearFlow ==
    /\ \A i, j \in DOMAIN log : i # j => log[i] # log[j]
    /\ Occurs(log, "render_recommendations") =>
           /\ Times("predict_water_quality") = 1
           /\ Times("assess_risk_factors") = 1
           /\ Times("render_recommendations") = 1
           /\ FirstAt("predict_water_quality") < FirstAt("render_recommendations")
           /\ FirstAt("assess_risk_factors") < FirstAt("render_recommendations")
           /\ input_array = ArrayOf(risk_arg)
           /\ risk_arg = raw_input

\* A finished run: every step once, in the order of the source.
C5_Witness ==
    /\ pc = "done"
    /\ log = << "load_models", "render_sidebar_inputs", "predict_water_quality",
                "visualizations", "assess_risk_factors",
                "render_recommendations", "footer" >>

\* C6: whatever the classifier returned, the prediction step leaves the
\* parameter set as it was read, the risk step is called with that raw
\* parameter set, and the risk factors handed to the recommendation step
\* are those of the raw parameter set alone.
C6_RiskIndependent ==
    /\ raw_input # Unbound => input_values = raw_input
    /\ risk_arg # Unbound =>
           /\ risk_arg = raw_input
           /\ risk_factors = assess_risk_factors(raw_input)

\* A run in which the classifier says safe and the rules flag a violation.
C6_Witness ==
    /\ pc = "footer"
    /\ prediction = PyInt(1)
    /\ raw_input.Turbidity = 51
    /\ risk_arg = raw_input
    /\ AnyNames(risk_factors, "Turbidity")

(***************************************************************************)
(* export_results (src/app.py 191-203).                                    *)
(***************************************************************************)
\* n / 10 rounded to the nearest integer, a tie going to the even one: the
\* rounding of Python's fixed-point formatting of a decimal it holds exactly.
RoundDiv10(n) ==
    LET q == n \div 10
        r == n % 10
    IN  IF r > 5 \/ (r = 5 /\ q % 2 = 1) THEN q + 1 ELSE q

Pad3(n) ==
    (IF n < 10 THEN "00" ELSE IF n < 100 THEN "0" ELSE "") \o ToString(n)

\* f"{x:.3f}" for x = p / 10000.
Fmt3f(p) ==
    LET t == RoundDiv10(p)
    IN  ToString(t \div 1000) \o "." \o Pad3(t % 1000)

\* f"{x*100:.1f}%" for x = p / 10000.
FmtPercent(p) ==
    LET t == RoundDiv10(p)
    IN  ToString(t \div 10) \o "." \o ToString(t % 10) \o "%"

\* max(probability)
MaxOf(pair) == IF pair[1] >= pair[2] THEN pair[1] ELSE pair[2]

\* sep.join(texts)
RECURSIVE Join(_, _)
Join(sep, texts) ==
    IF texts = << >> THEN ""
    ELSE IF Len(texts) = 1 THEN texts[1]
    ELSE texts[1] \o sep \o Join(sep, Tail(texts))

\* Line 195: `prediction == 1`.
IsSafeLabel(pred) == pred = PyInt(1)

\* ExportFields with the two probability columns exchanged.
ExportFields_swapped(pred, prob, risks, now) ==
    [ Prediction |-> IF IsSafeLabel(pred) THEN "Safe" ELSE "Unsafe",
      Confidence |-> FmtPercent(MaxOf(prob.value)),
      Safe_Probability |-> Fmt3f(prob.value[1]),
      Unsafe_Probability |-> Fmt3f(prob.value[2]),
      Risk_Factors_Count |-> Len(risks),
      Risk_Factors |-> IF risks # << >> THEN Join("; ", risks) ELSE "None",
      Timestamp |-> now ]

\* Lines 194-202: the dict literal handed to update().  probability[0] of
\* the code is prob.value[1] here, probability[1] is prob.value[2].
ExportFields(pred, prob, risks, now) ==
    [ Prediction |-> IF IsSafeLabel(pred) THEN "Safe" ELSE "Unsafe",
      Confidence |-> FmtPercent(MaxOf(prob.value)),
      Safe_Probability |-> Fmt3f(prob.value[2]),
      Unsafe_Probability |-> Fmt3f(prob.value[1]),
      Risk_Factors_Count |-> Len(risks),
      Risk_Factors |-> IF risks # << >> THEN Join("; ", risks) ELSE "None",
      Timestamp |-> now ]

\* d.update(u): the keys of u are added to d or overwritten in it.
DictUpdate(d, u) ==
    [ k \in (DOMAIN d) \cup (DOMAIN u) |-> IF k \in DOMAIN u THEN u[k] ELSE d[k] ]

\* A copy() that hands back the object it was asked to copy.
dict_alias(ref) == ref

\* Line 193: dict.copy() allocates a new dict object.
dict_copy(ref) == "fresh"

\* The dict object a reference names.
Deref(ref) == IF ref = "input_values" THEN input_values ELSE fresh

\* pd.Timestamp.now().strftime('%Y-%m-%d %H:%M:%S'): the clock's answer.
Timestamps == { "2026-01-01 00:00:00", "2026-01-01 00:00:01" }

ProbPairs == { Pair(1234, 8766), Pair(9996, 4), Pair(5000, 5000) }

ExportInputs ==
    [ ph : {64, 70}, Hardness : {301}, Solids : {400}, Chloramines : {21},
      Sulfate : {200}, Conductivity : {400}, Organic_carbon : {10},
      Trihalomethanes : {50}, Turbidity : {30} ]

(***************************************************************************)
(* ExportSpec: export_results, and render_recommendations beside it,       *)
(* applied to every label, probability pair and risk-factor list.          *)
(***************************************************************************)
ExportInit ==
    /\ pc = "copy"
    /\ input_values \in ExportInputs
    /\ raw_input = input_values
    /\ prediction \in Labels
    /\ probability \in ProbPairs
    /\ risk_factors \in RiskLists
    /\ banner = "none"
    /\ recommendations = <<>>
    /\ model = Unbound
    /\ input_array = Unbound
    /\ log = <<>>
    /\ risk_arg = Unbound
    /\ IdleExport

\* Line 193.
ExportCopy ==
    /\ pc = "copy"
    /\ results_dict' = dict_copy("input_values")
    /\ fresh' = IF results_dict' = "fresh" THEN input_values ELSE fresh
    /\ pc' = "update"
    /\ UNCHANGED <<model, input_values, input_array, prediction, probability,
                   risk_factors, banner, recommendations, log, raw_input,
                   risk_arg, row>>

\* Lines 194-202: update() writes into the object results_dict refers to.
ExportUpdate ==
    /\ pc = "update"
    /\ \E now \in Timestamps :
           LET updated ==
                   DictUpdate(Deref(results_dict),
                              ExportFields(prediction, probability,
                                           risk_factors, now))
           IN  IF results_dict = "input_values"
               THEN input_values' = updated /\ UNCHANGED fresh
               ELSE fresh' = updated /\ UNCHANGED input_values
    /\ pc' = "frame"
    /\ UNCHANGED <<model, input_array, prediction, probability, risk_factors,
                   banner, recommendations, log, raw_input, risk_arg,
                   results_dict, row>>

\* Line 203: the one-row DataFrame built from the dict.
ExportReturn ==
    /\ pc = "frame"
    /\ row' = Deref(results_dict)
    /\ pc' = "returned"
    /\ UNCHANGED <<model, input_values, input_array, prediction, probability,
                   risk_factors, banner, recommendations, log, raw_input,
                   risk_arg, results_dict, fresh>>

ExportNext ==
    \/ ExportCopy
    \/ ExportUpdate
    \/ ExportReturn
    \/ RenderCall

ExportSpec == ExportInit /\ [][ExportNext]_vars

(***************************************************************************)
(* Claims about export_results.                                            *)
(***************************************************************************)
Returned == pc = "returned"

ParameterFields == { FeatureNames[i] : i \in 1..Len(FeatureNames) }

DerivedFields ==
    { "Prediction", "Confidence", "Safe_Probability", "Unsafe_Probability",
      "Risk_Factors_Count", "Risk_Factors", "Timestamp" }

\* Where the i-th factor starts in the joined text, less one.
RECURSIVE Offset(_, _)
Offset(texts, i) ==
    IF i = 1 THEN 0 ELSE Offset(texts, i - 1) + Len(texts[i - 1]) + 2

\* text is the factors in their order with "; " between neighbours.
IsJoined(text, texts) ==
    /\ Len(text) = Offset(texts, Len(texts)) + Len(texts[Len(texts)])
    /\ \A i \in 1..Len(texts) :
           SubSeq(text, Offset(texts, i) + 1, Offset(texts, i) + Len(texts[i]))
               = texts[i]
    /\ \A i \in 2..Len(texts) :
           SubSeq(text, Offset(texts, i) - 1, Offset(texts, i)) = "; "

\* C7: the row says Safe exactly for the label 1 and Unsafe otherwise, counts
\* the risk factors, writes "None" exactly for the empty list and otherwise
\* the factors joined by "; " in order, and takes Safe_Probability from the
\* second and Unsafe_Probability from the first probability.
C7_DerivedFields ==
    Returned =>
        /\ row.Prediction \in { "Safe", "Unsafe" }
        /\ row.Prediction = "Safe" <=> prediction = PyInt(1)
        /\ row.Risk_Factors_Count = Len(risk_factors)
        /\ row.Risk_Factors = "None" <=> risk_factors = << >>
        /\ risk_factors # << >> => IsJoined(row.Risk_Factors, risk_factors)
        /\ row.Safe_Probability = Fmt3f(probability.value[2])
        /\ row.Unsafe_Probability = Fmt3f(probability.value[1])

\* Label 1 with probabilities (0.1234, 0.8766) and two risk factors.
C7_Witness ==
    /\ Returned
    /\ prediction = PyInt(1)
    /\ probability = Pair(1234, 8766)
    /\ risk_factors = << "pH outside 6.5-8.5", "Turbidity above 5" >>
    /\ row.Prediction = "Safe"
    /\ row.Safe_Probability = "0.877"
    /\ row.Unsafe_Probability = "0.123"
    /\ row.Risk_Factors_Count = 2
    /\ row.Risk_Factors = "pH outside 6.5-8.5; Turbidity above 5"

\* What C8 says of every state of a call.
C8_State ==
    /\ input_values = raw_input
    /\ DOMAIN input_values = ParameterFields
    /\ Returned =>
           /\ DOMAIN row = ParameterFields \cup DerivedFields
           /\ \A f \in ParameterFields : row[f] = raw_input[f]

\* C8: no step of export_results changes the caller's input_values, the
\* risk-factor list or the probability pair; input_values keeps exactly its
\* 9 fields, and the returned row carries the 9 values beside the derived
\* fields.
C8_InputsUntouched ==
    /\ []C8_State
    /\ [][UNCHANGED <<input_values, risk_factors, probability>>]_vars

\* A returned row of 16 columns beside an input_values of 9 fields.
C8_Witness ==
    /\ Returned
    /\ Cardinality(DOMAIN row) = 16
    /\ Cardinality(DOMAIN input_values) = 9
    /\ row.ph = input_values.ph
    /\ row.Risk_Factors_Count = 1

\* C10 as stated: for each of the labels 0, 1 and None the export says Safe
\* exactly when the synthesizer took the maintenance track and Unsafe
\* exactly when it took the urgent-action track.
C10_AsStated ==
    (Returned /\ Rendered) =>
        /\ row.Prediction = "Safe" <=> banner = SuccessBanner
        /\ row.Prediction = "Unsafe" <=> banner = ErrorBanner

=============================================================================
